---------------------------- MODULE Spec2Model ----------------------------
(* A model of week7/assignment7.py: the DataHandler ledger (two lists of   *)
(* records, add/delete operations, totals) and its two persisted files,   *)
(* finance_data.json (primary) and finance_data.txt (fallback).           *)
(*                                                                         *)
(* Text is a sequence of one-character strings, so that str.strip,        *)
(* str.split, the f-string formatting of a line and its parsing are       *)
(* computed character by character.  Amounts are integers (Python ints,   *)
(* and the floats that float() reads back from their decimal digits).     *)
(* The JSON file is modelled at the level of the JSON value it holds.     *)
EXTENDS Integers, Sequences, FiniteSets, TLC

VARIABLES autosave, incomes, expenses, files_loaded, json_file, txt_file, last

vars == <<autosave, incomes, expenses, files_loaded, json_file, txt_file, last>>

(***************************************************************************)
(* Bounds of the model.                                                    *)
(***************************************************************************)
MaxIncomes == 3

MaxExpenses == 1

(***************************************************************************)
(* Text.                                                                   *)
(***************************************************************************)
NL == "\n"

Whitespace == {" ", NL}

DigitChars == <<"0", "1", "2", "3", "4", "5", "6", "7", "8", "9">>

IsDigit(c) == \E i \in 1..10 : DigitChars[i] = c

DigitVal(c) == (CHOOSE i \in 1..10 : DigitChars[i] = c) - 1

AllDigits(s) == \A i \in 1..Len(s) : IsDigit(s[i])

RECURSIVE NatVal(_)
NatVal(s) ==
    IF s = <<>> THEN 0
    ELSE NatVal(SubSeq(s, 1, Len(s) - 1)) * 10 + DigitVal(s[Len(s)])

RECURSIVE LStrip(_)
LStrip(s) ==
    IF s = <<>> THEN s
    ELSE IF Head(s) \in Whitespace THEN LStrip(Tail(s)) ELSE s

RECURSIVE RStrip(_)
RStrip(s) ==
    IF s = <<>> THEN s
    ELSE IF s[Len(s)] \in Whitespace THEN RStrip(SubSeq(s, 1, Len(s) - 1)) ELSE s

\* str.strip()
Strip(s) == RStrip(LStrip(s))

\* str.split(sep): the parts between the separators, at least one part
Split(s, sep) ==
    LET pos == {i \in 1..Len(s) : s[i] = sep}
        n == Cardinality(pos)
        \* the position of the k-th separator; 0 and Len(s) + 1 bracket them
        P(k) == IF k = 0 THEN 0
                ELSE IF k = n + 1 THEN Len(s) + 1
                ELSE CHOOSE i \in pos : Cardinality({j \in pos : j < i}) = k - 1
    IN  [k \in 1..(n + 1) |-> SubSeq(s, P(k - 1) + 1, P(k) - 1)]

RECURSIVE Concat(_)
Concat(ss) == IF ss = <<>> THEN <<>> ELSE Head(ss) \o Concat(Tail(ss))

\* str(n) of an int, as the f-string of save_to_file formats an amount
RECURSIVE NatStr(_)
NatStr(n) ==
    IF n < 10 THEN <<DigitChars[n + 1]>>
    ELSE NatStr(n \div 10) \o <<DigitChars[(n % 10) + 1]>>

IntStr(n) == IF n < 0 THEN <<"-">> \o NatStr(-n) ELSE NatStr(n)

\* float(text) on the decimal integers IntStr writes: an optional sign and
\* one or more digits; anything else is a ValueError.
FloatParse(text) ==
    LET t == Strip(text)
        body == IF t # <<>> /\ Head(t) \in {"-", "+"} THEN Tail(t) ELSE t
    IN  IF body # <<>> /\ AllDigits(body)
        THEN [ok |-> TRUE,
              v |-> IF t # <<>> /\ Head(t) = "-" THEN -NatVal(body) ELSE NatVal(body)]
        ELSE [ok |-> FALSE, v |-> 0]

(***************************************************************************)
(* Dates: datetime.today().strftime and datetime.strptime(text, "%Y-%m-%d")*)
(***************************************************************************)
Today == <<"2", "0", "2", "6", "-", "1", "1", "-", "0", "2">>

IsLeap(y) == (y % 4 = 0 /\ y % 100 # 0) \/ y % 400 = 0

DaysInMonth(y, m) ==
    IF m = 2 THEN (IF IsLeap(y) THEN 29 ELSE 28)
    ELSE IF m \in {4, 6, 9, 11} THEN 30 ELSE 31

\* the directive %m: 1[0-2] | 0[1-9] | [1-9]
MonthField(s) ==
    /\ Len(s) \in {1, 2}
    /\ AllDigits(s)
    /\ NatVal(s) \in 1..12

\* the directive %d: 3[01] | [12]\d | 0[1-9] | [1-9] | " "[1-9]
DayField(s) ==
    \/ Len(s) \in {1, 2} /\ AllDigits(s) /\ NatVal(s) \in 1..31
    \/ Len(s) = 2 /\ s[1] = " " /\ IsDigit(s[2]) /\ s[2] # "0"

DayVal(s) == IF s[1] = " " THEN DigitVal(s[2]) ELSE NatVal(s)

\* whether strptime(text, "%Y-%m-%d") returns (TRUE) or raises (FALSE)
Strptime(text) ==
    LET p == Split(text, "-")
    IN  /\ Len(p) = 3
        /\ Len(p[1]) = 4 /\ AllDigits(p[1]) /\ NatVal(p[1]) >= 1
        /\ MonthField(p[2])
        /\ DayField(p[3])
        /\ DayVal(p[3]) <= DaysInMonth(NatVal(p[1]), NatVal(p[2]))

\* parse_date without the strip of the text it returns
parse_date_unstripped(text) ==
    LET t == Strip(text)
    IN  IF t = <<>> THEN [exc |-> "none", v |-> Today]
        ELSE IF Strptime(t) THEN [exc |-> "none", v |-> text]
        ELSE [exc |-> "ValueError", v |-> <<>>]

\* parse_date(text): the stripped text, today's date for blank text, or
\* ValueError (the bare except turns every failure into it)
parse_date(text) ==
    LET t == Strip(text)
    IN  IF t = <<>> THEN [exc |-> "none", v |-> Today]
        ELSE IF Strptime(t) THEN [exc |-> "none", v |-> t]
        ELSE [exc |-> "ValueError", v |-> <<>>]

(***************************************************************************)
(* The two persisted files.                                                *)
(*   json_file: [kind |-> "missing"], [kind |-> "garbage"] (text that      *)
(*     json.load rejects) or [kind |-> "json", v |-> the JSON value].      *)
(*   txt_file:  [kind |-> "missing"] or [kind |-> "text", content |-> the  *)
(*     characters of the file].                                            *)
(* A JSON object is [t |-> "object", m |-> a function of its keys], an     *)
(* array [t |-> "array", v |-> a sequence], null [t |-> "null"].  The      *)
(* records of the two lists are the dicts of the program.                  *)
(***************************************************************************)
JNull == [t |-> "null"]

JArray(seq) == [t |-> "array", v |-> seq]

JObject(m) == [t |-> "object", m |-> m]

TagExpense == <<"E", "x", "p", "e", "n", "s", "e">>

TagIncome == <<"I", "n", "c", "o", "m", "e">>

\* json.dump with the expenses under a misspelt key
JsonDumpKeyTypo(inc, exp) ==
    [kind |-> "json",
     v |-> JObject([incomes |-> JArray(inc), expense |-> JArray(exp)])]

\* json.dump({"incomes": self.incomes, "expenses": self.expenses}, f)
JsonDump(inc, exp) ==
    [kind |-> "json",
     v |-> JObject([incomes |-> JArray(inc), expenses |-> JArray(exp)])]

ExpenseLine(e) ==
    TagExpense \o <<"|">> \o e.description \o <<"|">> \o e.category \o <<"|">>
        \o IntStr(e.amount) \o <<"|">> \o e.date \o <<NL>>

IncomeLine(i) ==
    TagIncome \o <<"|">> \o i.source \o <<"|">> \o IntStr(i.amount) \o <<NL>>

\* f.writelines(expense_lines); f.writelines(income_lines)
TxtDump(inc, exp) ==
    [kind |-> "text",
     content |-> Concat([k \in 1..Len(exp) |-> ExpenseLine(exp[k])])
                 \o Concat([k \in 1..Len(inc) |-> IncomeLine(inc[k])])]

\* data[key] or []
ListOrEmpty(x) ==
    IF x.t = "null" \/ (x.t = "array" /\ x.v = <<>>) THEN <<>> ELSE x.v

\* the body of the try: the two assignments, in the order of the code
LoadJson(data, st) ==
    IF data.t # "object" THEN [st EXCEPT !.exc = "TypeError"]
    ELSE IF "expenses" \notin DOMAIN data.m THEN [st EXCEPT !.exc = "KeyError"]
    ELSE IF "incomes" \notin DOMAIN data.m
         THEN [st EXCEPT !.exc = "KeyError",
                         !.expenses = ListOrEmpty(data.m["expenses"])]
    ELSE [st EXCEPT !.expenses = ListOrEmpty(data.m["expenses"]),
                    !.incomes = ListOrEmpty(data.m["incomes"])]

\* one iteration of `for line in f`
LoadLine(raw, st) ==
    LET line == Strip(raw)
        line_parts == Split(line, "|")
        tag == line_parts[1]
    IN  IF line = <<>> THEN st
        ELSE IF tag = TagIncome
        THEN IF Len(line_parts) # 3 THEN [st EXCEPT !.exc = "ValueError"]
             ELSE IF ~FloatParse(line_parts[3]).ok
                  THEN [st EXCEPT !.exc = "ValueError"]
             ELSE [st EXCEPT !.incomes =
                      Append(@, [source |-> line_parts[2],
                                 amount |-> FloatParse(line_parts[3]).v])]
        ELSE IF tag = TagExpense
        THEN IF Len(line_parts) # 5 THEN [st EXCEPT !.exc = "ValueError"]
             ELSE IF ~FloatParse(line_parts[4]).ok
                  THEN [st EXCEPT !.exc = "ValueError"]
             ELSE [st EXCEPT !.expenses =
                      Append(@, [description |-> line_parts[2],
                                 category |-> line_parts[3],
                                 amount |-> FloatParse(line_parts[4]).v,
                                 date |-> line_parts[5]])]
        ELSE [st EXCEPT !.exc = "ValueError"]

RECURSIVE LoadLines(_, _)
LoadLines(lines, st) ==
    IF lines = <<>> \/ st.exc # "none" THEN st
    ELSE LoadLines(Tail(lines), LoadLine(Head(lines), st))

\* the except branch: the line-oriented file
LoadTxt(txt, st) ==
    IF txt.kind = "missing" THEN [st EXCEPT !.exc = "FileNotFoundError"]
    ELSE LoadLines(Split(txt.content, NL), st)

\* load_from_file on a handler whose lists are st.incomes and st.expenses:
\* the lists and the exception (or "none") it ends with
load_from_file(json, txt, st) ==
    IF json.kind \in {"missing", "garbage"} THEN LoadTxt(txt, st)
    ELSE LoadJson(json.v, st)

\* __init__: the lists and the flag after construction
DataHandlerInit(json, txt) ==
    LET r == load_from_file(json, txt,
                            [exc |-> "none", incomes |-> <<>>, expenses |-> <<>>])
    IN  IF r.exc = "none"
        THEN [incomes |-> r.incomes, expenses |-> r.expenses, files_loaded |-> TRUE]
        ELSE [incomes |-> <<>>, expenses |-> <<>>, files_loaded |-> FALSE]

(***************************************************************************)
(* The operations.  Each yields the exception it raises (or "none"), the   *)
(* two lists and the two files as it leaves them, and whether it wrote.    *)
(***************************************************************************)
Raised(e) ==
    [exc |-> e, incomes |-> incomes, expenses |-> expenses,
     json_file |-> json_file, txt_file |-> txt_file, wrote |-> FALSE]

\* the operation's tail: the lists as mutated, then self.save_to_file()
save_to_file(inc, exp) ==
    IF ~autosave
    THEN [exc |-> "none", incomes |-> inc, expenses |-> exp,
          json_file |-> json_file, txt_file |-> txt_file, wrote |-> FALSE]
    ELSE [exc |-> "none", incomes |-> inc, expenses |-> exp,
          json_file |-> JsonDump(inc, exp), txt_file |-> TxtDump(inc, exp),
          wrote |-> TRUE]

\* add_income inserting the record at the front of the list
add_income_front(source, amount) ==
    IF amount < 0 THEN Raised("ValueError")
    ELSE IF Strip(source) = <<>> THEN Raised("ValueError")
    ELSE save_to_file(<<[source |-> source, amount |-> amount]>> \o incomes,
                      expenses)

add_income(source, amount) ==
    IF amount < 0 THEN Raised("ValueError")
    ELSE IF Strip(source) = <<>> THEN Raised("ValueError")
    ELSE save_to_file(Append(incomes, [source |-> source, amount |-> amount]),
                      expenses)

\* add_expense appending the record before it checks the amount and the date
add_expense_append_first(description, category, amount, date) ==
    LET appended ==
            Append(expenses, [description |-> description, category |-> category,
                              amount |-> amount,
                              date |-> parse_date(date).v])
    IN  IF Strip(category) = <<>> THEN Raised("ValueError")
        ELSE IF Strip(description) = <<>> THEN Raised("ValueError")
        ELSE IF amount < 0 \/ parse_date(date).exc # "none"
             THEN [Raised("ValueError") EXCEPT !.expenses = appended]
        ELSE save_to_file(incomes, appended)

add_expense(description, category, amount, date) ==
    IF Strip(category) = <<>> THEN Raised("ValueError")
    ELSE IF Strip(description) = <<>> THEN Raised("ValueError")
    ELSE IF amount < 0 THEN Raised("ValueError")
    ELSE IF parse_date(date).exc # "none" THEN Raised(parse_date(date).exc)
    ELSE save_to_file(incomes,
                      Append(expenses, [description |-> description,
                                        category |-> category,
                                        amount |-> amount,
                                        date |-> parse_date(date).v]))

\* del seq[index] if a negative index were out of range
DelItemNoNegative(seq, index) ==
    LET n == Len(seq)
    IN  IF index < 0 \/ index >= n THEN [exc |-> "IndexError", v |-> seq]
        ELSE [exc |-> "none",
              v |-> SubSeq(seq, 1, index) \o SubSeq(seq, index + 2, n)]

\* del seq[index]: Python counts a negative index from the end
DelItem(seq, index) ==
    LET n == Len(seq)
        k == IF index < 0 THEN index + n ELSE index
    IN  IF k < 0 \/ k >= n THEN [exc |-> "IndexError", v |-> seq]
        ELSE [exc |-> "none",
              v |-> SubSeq(seq, 1, k) \o SubSeq(seq, k + 2, n)]

delete_income(index) ==
    IF DelItem(incomes, index).exc # "none" THEN Raised(DelItem(incomes, index).exc)
    ELSE save_to_file(DelItem(incomes, index).v, expenses)

delete_expense(index) ==
    IF DelItem(expenses, index).exc # "none" THEN Raised(DelItem(expenses, index).exc)
    ELSE save_to_file(incomes, DelItem(expenses, index).v)

RECURSIVE SumAmounts(_)
SumAmounts(seq) ==
    IF seq = <<>> THEN 0 ELSE seq[1].amount + SumAmounts(Tail(seq))

total_income == SumAmounts(incomes)

total_expenses == SumAmounts(expenses)

\* balance adding the expenses
balance_added == total_income + total_expenses

balance == total_income - total_expenses

(***************************************************************************)
(* The inputs the operations are called with.                              *)
(***************************************************************************)
SrcJob == <<"j", "o", "b">>

SrcBlank == <<" ", " ">>

SrcPipe == <<"a", "|", "b">>

DescCar == <<"c", "a", "r">>

CatFood == <<"F", "o", "o", "d">>

DateBlank == <<" ">>

DatePadded == <<" ", "2", "0", "2", "4", "-", "0", "2", "-", "2", "9", " ">>

DateShort == <<"2", "0", "2", "4", "-", "1", "-", "5">>

DateLeap == <<"2", "0", "2", "4", "-", "0", "2", "-", "2", "9">>

DateBadMonth == <<"2", "0", "2", "4", "-", "1", "3", "-", "0", "1">>

DateBadDay == <<"2", "0", "2", "3", "-", "0", "2", "-", "2", "9">>

DateNot == <<"n", "o", "t", "-", "a", "-", "d", "a", "t", "e">>

IncomeArg(s, a) == [source |-> s, amount |-> a]

\* the valid calls, and the calls with one or two invalid arguments
IncomeArgs ==
    {IncomeArg(SrcJob, 12), IncomeArg(SrcJob, 0), IncomeArg(SrcPipe, 12),
     IncomeArg(SrcBlank, 12), IncomeArg(SrcJob, -1), IncomeArg(<<>>, -1)}

ExpenseArg(d, c, a, t) ==
    [description |-> d, category |-> c, amount |-> a, date |-> t]

\* the valid calls, and the calls with one or two invalid arguments
ExpenseArgs ==
    {ExpenseArg(DescCar, CatFood, 5, t) : t \in {DateBlank, DatePadded, DateShort}}
    \cup {ExpenseArg(SrcBlank, CatFood, 5, DateLeap),
          ExpenseArg(DescCar, <<>>, 5, DateLeap),
          ExpenseArg(DescCar, CatFood, -1, DateLeap)}
    \cup {ExpenseArg(DescCar, CatFood, 5, t) :
              t \in {DateBadMonth, DateBadDay, DateNot}}

(***************************************************************************)
(* The files a handler may find when it is constructed.                    *)
(***************************************************************************)
IncJob == [source |-> SrcJob, amount |-> 12]

IncBad == [source |-> SrcBlank, amount |-> -1]

ExpCar ==
    [description |-> DescCar, category |-> CatFood, amount |-> 5, date |-> DateLeap]

JMissing == [kind |-> "missing"]

JGarbage == [kind |-> "garbage"]

JsonFiles ==
    {JMissing, JGarbage,
     JsonDump(<<IncJob>>, <<ExpCar>>),
     [kind |-> "json", v |-> JObject([incomes |-> JArray(<<IncJob>>)])],
     [kind |-> "json", v |-> JObject([expenses |-> JArray(<<ExpCar>>)])],
     [kind |-> "json", v |-> JObject([incomes |-> JArray(<<IncJob>>),
                                     expenses |-> JNull])],
     [kind |-> "json", v |-> JArray(<<>>)],
     JsonDump(<<IncBad>>, <<>>)}

TMissing == [kind |-> "missing"]

TText(lines) == [kind |-> "text", content |-> Concat(lines)]

LineIncome0 == TagIncome \o <<"|">> \o SrcJob \o <<"|", "0", NL>>

TxtFiles ==
    {TMissing,
     TText(<<>>),
     TxtDump(<<[source |-> SrcJob, amount |-> 0]>>, <<ExpCar>>),
     TText(<< <<NL, " ">> \o LineIncome0 >>),
     TText(<<LineIncome0, <<"T", "a", "x", "|", "x", "|", "1", NL>> >>),
     TText(<<LineIncome0, TagIncome \o <<"|", "a", "|", "b", "|", "1", NL>> >>),
     TText(<<LineIncome0, TagExpense \o <<"|", "a", "|", "b", "|", "1", NL>> >>),
     TText(<<TagIncome \o <<"|", "a", "|", "x", NL>> >>),
     TText(<<TagIncome \o <<"|">> \o SrcBlank \o <<"|", "-", "1", NL>> >>)}

\* a handler that does not save (the unit tests' DataHandler(autosave=False))
\* is run on these files only
TestFiles ==
    {<<JsonDump(<<IncJob>>, <<ExpCar>>), TMissing>>}

(***************************************************************************)
(* The state machine.  `last` records the last call: the operation, its    *)
(* arguments, the exception it raised and whether it wrote the files.      *)
(***************************************************************************)
NoArgs ==
    [source |-> <<>>, description |-> <<>>, category |-> <<>>, amount |-> 0,
     date |-> <<>>, index |-> 0]

Init ==
    \E a \in BOOLEAN, j \in JsonFiles, t \in TxtFiles :
        /\ a \/ <<j, t>> \in TestFiles
        /\ autosave = a
        /\ json_file = j
        /\ txt_file = t
        /\ incomes = DataHandlerInit(j, t).incomes
        /\ expenses = DataHandlerInit(j, t).expenses
        /\ files_loaded = DataHandlerInit(j, t).files_loaded
        /\ last = [op |-> "init", args |-> NoArgs, exc |-> "none", wrote |-> FALSE]

\* the state after a call that ended as r
Call(op, args, r) ==
    /\ Len(r.incomes) <= MaxIncomes
    /\ Len(r.expenses) <= MaxExpenses
    /\ incomes' = r.incomes
    /\ expenses' = r.expenses
    /\ json_file' = r.json_file
    /\ txt_file' = r.txt_file
    /\ last' = [op |-> op, args |-> args, exc |-> r.exc, wrote |-> r.wrote]
    /\ UNCHANGED <<autosave, files_loaded>>

AddIncome ==
    \E x \in IncomeArgs :
        Call("add_income", [NoArgs EXCEPT !.source = x.source, !.amount = x.amount],
             add_income(x.source, x.amount))

AddExpense ==
    \E x \in ExpenseArgs :
        Call("add_expense",
             [NoArgs EXCEPT !.description = x.description,
                            !.category = x.category,
                            !.amount = x.amount, !.date = x.date],
             add_expense(x.description, x.category, x.amount, x.date))

DeleteIncome ==
    \E i \in (-Len(incomes) - 1)..Len(incomes) :
        Call("delete_income", [NoArgs EXCEPT !.index = i], delete_income(i))

DeleteExpense ==
    \E i \in (-Len(expenses) - 1)..Len(expenses) :
        Call("delete_expense", [NoArgs EXCEPT !.index = i], delete_expense(i))

Next == AddIncome \/ AddExpense \/ DeleteIncome \/ DeleteExpense

Spec == Init /\ [][Next]_vars

(***************************************************************************)
(* Notions of the specification, stated without the program's operators.   *)
(***************************************************************************)
Blank(s) == \A i \in 1..Len(s) : s[i] \in Whitespace

\* a calendar date written as exactly YYYY-MM-DD
ValidYMD(s) ==
    /\ Len(s) = 10
    /\ s[5] = "-" /\ s[8] = "-"
    /\ \A i \in {1, 2, 3, 4, 6, 7, 9, 10} : IsDigit(s[i])
    /\ NatVal(SubSeq(s, 1, 4)) >= 1
    /\ NatVal(SubSeq(s, 6, 7)) \in 1..12
    /\ NatVal(SubSeq(s, 9, 10)) \in
           1..DaysInMonth(NatVal(SubSeq(s, 1, 4)), NatVal(SubSeq(s, 6, 7)))

\* text that names no calendar date at all: not three groups of digits
\* year-month-day, or a month or a day that does not exist
NotADate(s) ==
    LET t == Strip(s)
        p == Split(t, "-")
    IN  /\ t # <<>>
        /\ \/ Len(p) # 3
           \/ \E k \in 1..Len(p) : p[k] = <<>> \/ ~AllDigits(p[k])
           \/ NatVal(p[2]) \notin 1..12
           \/ NatVal(p[3]) \notin 1..DaysInMonth(NatVal(p[1]), NatVal(p[2]))

\* seq without the record at zero-based position k
Without(seq, k) ==
    [j \in 1..(Len(seq) - 1) |-> IF j <= k THEN seq[j] ELSE seq[j + 1]]

RECURSIVE SumTo(_, _)
SumTo(seq, n) == IF n = 0 THEN 0 ELSE SumTo(seq, n - 1) + seq[n].amount

Memory == [incomes |-> incomes, expenses |-> expenses, files_loaded |-> TRUE]

AfterSuccess == autosave /\ last.op # "init" /\ last.exc = "none"

(***************************************************************************)
(* C1: on a saving handler, after every successful add or delete, a new    *)
(* handler constructed from the two files holds the same income and        *)
(* expense sequences, in the same order, and its load-failure flag is not  *)
(* set.                                                                    *)
(***************************************************************************)
C1_RoundTrip ==
    AfterSuccess => DataHandlerInit(json_file, txt_file) = Memory

C1_Witness ==
    /\ AfterSuccess
    /\ Len(incomes) >= 2 /\ Len(expenses) >= 1
    /\ \E k \in 1..Len(incomes) : incomes[k].source = SrcPipe
    /\ DataHandlerInit(json_file, txt_file) = Memory

\* the list the structured file holds under key, empty when it holds none
ListOf(key) ==
    IF key \in DOMAIN json_file.v.m THEN ListOrEmpty(json_file.v.m[key]) ELSE <<>>

\* the structured file is missing, is not JSON, or holds no JSON object
JsonUnusable ==
    \/ json_file.kind \in {"missing", "garbage"}
    \/ json_file.v.t # "object"

\* a line with an unknown tag, a wrong field count or no number as amount
BadLine(raw) ==
    LET l == Strip(raw)
        p == Split(l, "|")
    IN  /\ l # <<>>
        /\ ~ \/ p[1] = TagIncome /\ Len(p) = 3 /\ FloatParse(p[3]).ok
             \/ p[1] = TagExpense /\ Len(p) = 5 /\ FloatParse(p[4]).ok

\* the line file is missing or has a malformed line
TxtUnusable ==
    \/ txt_file.kind = "missing"
    \/ \E k \in 1..Len(Split(txt_file.content, NL)) :
           BadLine(Split(txt_file.content, NL)[k])

(***************************************************************************)
(* C2: at construction the structured file is read first, the line file    *)
(* only when the structured file is missing or does not parse; the flag is *)
(* set exactly when both failed, and then both sequences are empty.        *)
(***************************************************************************)
C2_LoadProtocol ==
    last.op = "init" =>
        /\ files_loaded = ~(JsonUnusable /\ TxtUnusable)
        /\ ~files_loaded => (incomes = <<>> /\ expenses = <<>>)
        /\ ~JsonUnusable => (/\ incomes = ListOf("incomes")
                             /\ expenses = ListOf("expenses"))

(***************************************************************************)
(* C3: a structured file that parses but lacks one of the two lists loads  *)
(* the list it has, takes the other as empty, and sets no failure flag.    *)
(***************************************************************************)
C3_MissingListIsEmpty ==
    (/\ last.op = "init"
     /\ json_file.kind = "json"
     /\ json_file.v.t = "object"
     /\ DOMAIN json_file.v.m # {"incomes", "expenses"})
    => (/\ files_loaded
        /\ incomes = ListOf("incomes")
        /\ expenses = ListOf("expenses"))

(***************************************************************************)
(* C4: in every reachable state every record has amount >= 0 and non-blank *)
(* source, description and category, and every expense date is a valid     *)
(* calendar date written YYYY-MM-DD.                                       *)
(***************************************************************************)
C4_RecordInvariant ==
    /\ \A k \in 1..Len(incomes) :
           incomes[k].amount >= 0 /\ ~Blank(incomes[k].source)
    /\ \A k \in 1..Len(expenses) :
           /\ expenses[k].amount >= 0
           /\ ~Blank(expenses[k].description)
           /\ ~Blank(expenses[k].category)
           /\ ValidYMD(expenses[k].date)

\* C4, of the dates that add_expense itself stores: each is written
\* YYYY-MM-DD.  The date 2024-1-5, which strptime accepts, violates it.
AddedDatesAreYMD ==
    [][(last'.op = "add_expense" /\ last'.exc = "none")
           => ValidYMD(expenses'[Len(expenses')].date)]_vars

\* a delete call l that took seq to seq2, by zero-based positions only
DeleteAsClaimed(seq, seq2, other, other2, l) ==
    IF 0 <= l.args.index /\ l.args.index < Len(seq)
    THEN l.exc = "none" /\ seq2 = Without(seq, l.args.index) /\ other2 = other
    ELSE l.exc = "IndexError" /\ seq2 = seq /\ other2 = other

(***************************************************************************)
(* C5, as claimed: delete_income(index) and delete_expense(index) remove   *)
(* the record at zero-based position index when 0 <= index < length, and   *)
(* keep the rest in order and the other sequence as it was; for every      *)
(* other index, negative ones included, they fail with an out-of-range     *)
(* error and change nothing.                                               *)
(***************************************************************************)
C5_DeleteZeroBasedOnly ==
    [][/\ last'.op = "delete_income"
          => DeleteAsClaimed(incomes, incomes', expenses, expenses', last')
       /\ last'.op = "delete_expense"
          => DeleteAsClaimed(expenses, expenses', incomes, incomes', last')]_vars

\* the same with negative indices counted from the end
DeleteAsCoded(seq, seq2, other, other2, l) ==
    LET i == l.args.index
        n == Len(seq)
    IN  IF -n <= i /\ i < n
        THEN /\ l.exc = "none"
             /\ seq2 = Without(seq, IF i < 0 THEN n + i ELSE i)
             /\ other2 = other
        ELSE /\ l.exc = "IndexError" /\ seq2 = seq /\ other2 = other
             /\ ~l.wrote /\ json_file' = json_file /\ txt_file' = txt_file

(***************************************************************************)
(* C5, amended: an index with -length <= index < 0 counts from the end     *)
(* (position length + index); the call removes the record at that          *)
(* position, keeps the rest in order and the other sequence as it was.     *)
(* Only an index < -length or >= length fails with the out-of-range error  *)
(* and changes nothing, the files included.                                *)
(***************************************************************************)
C5_DeleteByIndex ==
    [][/\ last'.op = "delete_income"
          => DeleteAsCoded(incomes, incomes', expenses, expenses', last')
       /\ last'.op = "delete_expense"
          => DeleteAsCoded(expenses, expenses', incomes, incomes', last')]_vars

\* a delete by a negative index that left two different records
C5_Witness ==
    /\ last.op = "delete_income"
    /\ last.exc = "none"
    /\ last.args.index = -2
    /\ Len(incomes) = 2
    /\ incomes[1] # incomes[2]

(***************************************************************************)
(* C6: on a saving handler, after every successful add or delete, both     *)
(* files have been rewritten and each alone, read by its load rule, yields *)
(* the income and expense sequences of the handler.                        *)
(***************************************************************************)
C6_BothFilesMirror ==
    AfterSuccess =>
        /\ last.wrote
        /\ DataHandlerInit(json_file, TMissing) = Memory
        /\ DataHandlerInit(JMissing, txt_file) = Memory

\* the calls the specification has rejected
InvalidAdd(l) ==
    \/ /\ l.op = "add_income"
       /\ (l.args.amount < 0 \/ Blank(l.args.source))
    \/ /\ l.op = "add_expense"
       /\ \/ Blank(l.args.description)
          \/ Blank(l.args.category)
          \/ l.args.amount < 0
          \/ NotADate(l.args.date)

ValidExpenseCall(l) ==
    /\ l.op = "add_expense"
    /\ ~Blank(l.args.description)
    /\ ~Blank(l.args.category)
    /\ l.args.amount >= 0
    /\ (Blank(l.args.date) \/ ValidYMD(Strip(l.args.date)))

C9_AddIncomeAppends ==
    [][(/\ last'.op = "add_income"
        /\ ~Blank(last'.args.source)
        /\ last'.args.amount >= 0)
          => /\ last'.exc = "none"
             /\ incomes' = Append(incomes, [source |-> last'.args.source,
                                            amount |-> last'.args.amount])
             /\ expenses' = expenses
             /\ total_income' = total_income + last'.args.amount]_vars

\* an income added after a different one
C9_Witness ==
    /\ last.op = "add_income"
    /\ last.exc = "none"
    /\ Len(incomes) >= 2
    /\ incomes[Len(incomes)] = [source |-> SrcPipe, amount |-> 12]
    /\ incomes[1] # incomes[Len(incomes)]

(***************************************************************************)
(* C10: in every reachable state balance is total_income minus             *)
(* total_expenses, each total being the sum of the amounts of its          *)
(* sequence, and 0 for an empty one; balance is 0 when both are empty.     *)
(***************************************************************************)
C10_Balance ==
    /\ total_income = SumTo(incomes, Len(incomes))
    /\ total_expenses = SumTo(expenses, Len(expenses))
    /\ balance = SumTo(incomes, Len(incomes)) - SumTo(expenses, Len(expenses))
    /\ (incomes = <<>> /\ expenses = <<>>) => balance = 0

C10_Witness ==
    /\ Len(incomes) = 2
    /\ Len(expenses) = 1
    /\ balance = 19

=============================================================================
